---- MODULE Spec2Model ----
(***************************************************************************)
(* Model of src/src/utils.ts: the SPL Governance proposal transaction      *)
(* builders (createProposalTx, insertTransactionTx,                        *)
(* createProposalSignOffTx, createProposalWithInstructionsTransactions)    *)
(* and the program handle factory createSplGovernanceProgram.              *)
(*                                                                         *)
(* Every invocation of a builder runs in a call frame of its own; frames   *)
(* interleave at the await points of the code (the realm fetch and the     *)
(* .transaction() promise).                                                *)
(***************************************************************************)
EXTENDS Integers, Sequences, FiniteSets, TLC

\* ------------------------------------------------------------------ bounds
\* Number of call frames that may be in flight at once.
NumCalls == 2
\* Number of distinct plain public keys the caller and the chain may supply.
NumKeys == 2
\* Longest instruction list a caller passes.
MaxInstructions == 1

\* ------------------------------------------------------------------ values
\* JavaScript null / undefined.
Null == [null |-> TRUE]

\* A public key that is not derived by this library.
Key(n) == [key |-> n]
Keys == {Key(n) : n \in 1..NumKeys}

\* Well-known keys the code names.
GOVERNANCE_PROGRAM_ID == [wellKnown |-> "GOVERNANCE_PROGRAM_ID"]
SystemProgramId == [wellKnown |-> "SystemProgram.programId"]
SYSVAR_RENT_PUBKEY == [wellKnown |-> "SYSVAR_RENT_PUBKEY"]
GOVERNANCE_PROGRAM_SEED == "governance"

\* An Address is a PublicKey or its base-58 string.
Base58(k) == [base58 |-> k]
Addresses == Keys \cup {Base58(k) : k \in Keys}

\* new web3.PublicKey(address): a string is decoded, a key is kept.
PublicKey(address) ==
  IF "base58" \in DOMAIN address THEN address.base58 ELSE address

\* publicKey.toBuffer(): the 32 bytes of the key, kept as one token.
toBuffer(publicKey) == <<[bytes32 |-> publicKey]>>

\* Buffer.from(string): the bytes of the string, kept as one token.
BufferFrom(string) == <<[utf8 |-> string]>>

\* BN.byteLength(): the number of bytes the magnitude needs (0 for 0).
RECURSIVE byteLength(_)
byteLength(n) == IF n = 0 THEN 0 ELSE 1 + byteLength(n \div 256)

\* new BN(n).toArrayLike(Buffer, "le", length) asserts byteLength <= length.
toArrayLikeFits(n, length) == byteLength(n) <= length

\* Mutant: the bytes come out big-endian.
toArrayLikeBE(n, length) ==
  [i \in 1..length |-> [byte |-> (n \div (256 ^ (length - i))) % 256]]

\* new BN(n).toArrayLike(Buffer, "le", length): little-endian, zero padded.
toArrayLike(n, length) ==
  [i \in 1..length |-> [byte |-> (n \div (256 ^ (i - 1))) % 256]]

RECURSIVE concat(_)
concat(buffers) ==
  IF buffers = <<>> THEN <<>> ELSE Head(buffers) \o concat(Tail(buffers))

\* web3.PublicKey.findProgramAddressSync(seeds, programId)[0]: the hash of
\* the concatenated seeds and the owning program, kept symbolically.
findProgramAddressSync(seeds, programId) ==
  [seeds |-> concat(seeds), owner |-> programId]

\* ----------------------------------------------------------- program handle
\* AnchorWallet: the signer capability.
Wallets == {[publicKey |-> Key(1)]}

\* createSplGovernanceProgram(wallet, connection, programId = default).
createSplGovernanceProgram(wallet, programId) ==
  [ programId |-> IF programId = Null THEN GOVERNANCE_PROGRAM_ID ELSE programId,
    provider  |-> [ publicKey |-> wallet.publicKey,
                    commitment |-> "confirmed",
                    preflightCommitment |-> "confirmed",
                    skipPreflight |-> FALSE ] ]

\* The programId argument: omitted, or an override.
ProgramIdArgs == {Null, Key(1)}

\* getInstructionDataFromInstruction(instruction).
getInstructionDataFromInstruction(instruction) ==
  [ programId |-> instruction.programId,
    accounts  |-> instruction.keys,
    data      |-> instruction.data ]

\* A caller-supplied web3.TransactionInstruction.
SampleInstruction ==
  [ programId |-> Key(1), keys |-> <<Key(NumKeys)>>, data |-> <<7>> ]

InstructionLists ==
  UNION {[1..n -> {SampleInstruction}] : n \in 0..MaxInstructions}



\* An error thrown by the code or by a collaborator.
Error(message) == [message |-> message]
TypeError == Error("TypeError: cannot read properties of null")

\* ------------------------------------------------------------------- state
VARIABLES
  program,   \* the handle createSplGovernanceProgram returned
  frame      \* frame[c]: position, arguments and locals of call c

vars == <<program, frame>>

Calls == 1..NumCalls

\* A frame no call runs in.
IdleFrame ==
  [ pc |-> "idle", fn |-> "none", args |-> Null, io |-> <<>>,
    realm |-> Null, proposalSeed |-> Null, governingTokenMint |-> Null,
    proposalAddress |-> Null, proposalOwnerRecordKey |-> Null,
    realmConfigAddress |-> Null, proposalDepositAddress |-> Null,
    ixDataVec |-> Null, proposalTransactionAddress |-> Null,
    keypairs |-> <<>>, promises |-> <<>>, result |-> Null, error |-> Null ]

\* councilVote = false: an omitted argument takes the default.
councilVoteOrDefault(councilVote) ==
  IF councilVote = "undefined" THEN FALSE ELSE councilVote = "true"

CouncilVoteArgs == {"true", "false", "undefined"}
ProposalNames == {"proposal"}

\* governanceProgram.provider.publicKey: the one use made of the signer.
providerPublicKey(governanceProgram) == governanceProgram.provider.publicKey

\* Mutant: .rpc() in place of .transaction(): the transaction is signed by the
\* wallet and sent over the connection.
rpc(governanceProgram, name, args, accounts) ==
  [ tx |-> [ instructions |-> << [ programId |-> governanceProgram.programId,
                                   name |-> name,
                                   args |-> args,
                                   accounts |-> accounts ] >>,
             signatures |-> <<governanceProgram.provider.publicKey>> ],
    io |-> <<"wallet.signTransaction", "connection.sendRawTransaction">> ]

\* governanceProgram.methods.<name>(args).accounts(accounts).transaction():
\* an unsigned transaction holding the one instruction, addressed to the
\* handle's program. Nothing is asked of the signer or the connection.
transaction(governanceProgram, name, args, accounts) ==
  [ tx |-> [ instructions |-> << [ programId |-> governanceProgram.programId,
                                   name |-> name,
                                   args |-> args,
                                   accounts |-> accounts ] >>,
             signatures |-> <<>> ],
    io |-> <<>> ]

\* ------------------------------------------------------- createProposalTx
\* Mutant: the fetched realm is not checked.
cp_checkRealmSkipped(l) == l

\* if (!realm) throw new Error("Could not fetch Realm V2 account")
cp_checkRealm(l) ==
  IF l.realm = Null
  THEN [l EXCEPT !.error = Error("Could not fetch Realm V2 account")]
  ELSE l

\* Mutant: the proposal seed is kept at module level and generated only when
\* no call in flight has one.
cp_proposalSeedShared(l, seed) ==
  IF l.error # Null THEN l
  ELSE IF \E d \in DOMAIN frame : frame[d].proposalSeed # Null
  THEN [l EXCEPT !.proposalSeed =
          frame[CHOOSE d \in DOMAIN frame : frame[d].proposalSeed # Null].proposalSeed]
  ELSE [l EXCEPT !.proposalSeed = seed, !.keypairs = @ \o <<seed>>]

\* const proposalSeed = new web3.Keypair().publicKey
cp_proposalSeed(l, seed) ==
  IF l.error # Null THEN l
  ELSE [l EXCEPT !.proposalSeed = seed, !.keypairs = @ \o <<seed>>]

\* Mutant: the branches of the conditional are swapped.
cp_selectMintSwapped(realm, councilVote) ==
  IF councilVote THEN realm.communityMint ELSE realm.config.councilMint

\* Mutant: a realm without a council mint falls back to the community mint.
cp_selectMintFallback(realm, councilVote) ==
  IF councilVote /\ realm.config.councilMint # Null
  THEN realm.config.councilMint
  ELSE realm.communityMint

\* councilVote ? realm.config.councilMint : realm.communityMint
cp_selectMint(realm, councilVote) ==
  IF councilVote THEN realm.config.councilMint ELSE realm.communityMint

cp_governingTokenMint(l) ==
  IF l.error # Null THEN l
  ELSE IF l.realm = Null THEN [l EXCEPT !.error = TypeError]
  ELSE [l EXCEPT !.governingTokenMint =
          cp_selectMint(l.realm, councilVoteOrDefault(l.args.councilVote))]

cp_proposalSeeds(l) ==
  << BufferFrom(GOVERNANCE_PROGRAM_SEED),
     toBuffer(PublicKey(l.args.governanceKey)),
     toBuffer(l.governingTokenMint),
     toBuffer(l.proposalSeed) >>

\* governingTokenMint.toBuffer() throws when the mint is absent.
cp_proposalAddress(governanceProgram, l) ==
  IF l.error # Null THEN l
  ELSE IF l.governingTokenMint = Null THEN [l EXCEPT !.error = TypeError]
  ELSE [l EXCEPT !.proposalAddress =
          findProgramAddressSync(cp_proposalSeeds(l),
                                 GOVERNANCE_PROGRAM_ID)]

\* Mutant: the owner record is derived from the proposal seed, as the
\* proposal is, in place of the caller's key.
cp_ownerRecordSeedsOfProposal(governanceProgram, l) ==
  << BufferFrom(GOVERNANCE_PROGRAM_SEED),
     toBuffer(PublicKey(l.args.realmKey)),
     toBuffer(l.governingTokenMint),
     toBuffer(l.proposalSeed) >>

cp_ownerRecordSeeds(governanceProgram, l) ==
  << BufferFrom(GOVERNANCE_PROGRAM_SEED),
     toBuffer(PublicKey(l.args.realmKey)),
     toBuffer(l.governingTokenMint),
     toBuffer(providerPublicKey(governanceProgram)) >>

cp_proposalOwnerRecordKey(governanceProgram, l) ==
  IF l.error # Null THEN l
  ELSE [l EXCEPT !.proposalOwnerRecordKey =
          findProgramAddressSync(cp_ownerRecordSeeds(governanceProgram, l),
                                 GOVERNANCE_PROGRAM_ID),
                 !.io = @ \o <<"provider.publicKey">>]

cp_realmConfigAddress(governanceProgram, l) ==
  IF l.error # Null THEN l
  ELSE [l EXCEPT !.realmConfigAddress =
          findProgramAddressSync(
            << BufferFrom("realm-config"), toBuffer(PublicKey(l.args.realmKey)) >>,
            GOVERNANCE_PROGRAM_ID)]

cp_proposalDepositAddress(governanceProgram, l) ==
  IF l.error # Null THEN l
  ELSE [l EXCEPT !.proposalDepositAddress =
          findProgramAddressSync(
            << toBuffer(l.proposalAddress),
               toBuffer(providerPublicKey(governanceProgram)) >>,
            GOVERNANCE_PROGRAM_ID),
                 !.io = @ \o <<"provider.publicKey">>]

cp_createProposalArgs(l) ==
  [ name |-> l.args.proposalName, descriptionLink |-> "",
    voteType |-> "singleChoice", options |-> <<"Approve">>,
    useDenyOption |-> TRUE, proposalSeed |-> l.proposalSeed ]

cp_createProposalAccounts(governanceProgram, l) ==
  [ realm |-> PublicKey(l.args.realmKey),
    proposalAddress |-> l.proposalAddress,
    governance |-> PublicKey(l.args.governanceKey),
    proposalOwnerRecord |-> l.proposalOwnerRecordKey,
    governanceAuthority |-> providerPublicKey(governanceProgram),
    payer |-> providerPublicKey(governanceProgram),
    governingTokenMint |-> l.governingTokenMint,
    systemProgram |-> SystemProgramId,
    realmConfigAddress |-> l.realmConfigAddress,
    proposalDepositAddress |-> l.proposalDepositAddress ]

cp_transaction(governanceProgram, l) ==
  IF l.error # Null THEN l
  ELSE LET t == transaction(governanceProgram, "createProposal",
                            cp_createProposalArgs(l),
                            cp_createProposalAccounts(governanceProgram, l))
       IN [l EXCEPT !.promises = <<t.tx>>,
                    !.io = @ \o <<"provider.publicKey", "provider.publicKey">> \o t.io]

\* Lines 69-129: what createProposalTx runs once the realm fetch has resolved.
cp_afterFetch(governanceProgram, l, seed) ==
  LET l1 == cp_checkRealm(l)
      l2 == cp_proposalSeed(l1, seed)
      l3 == cp_governingTokenMint(l2)
      l4 == cp_proposalAddress(governanceProgram, l3)
      l5 == cp_proposalOwnerRecordKey(governanceProgram, l4)
      l6 == cp_realmConfigAddress(governanceProgram, l5)
      l7 == cp_proposalDepositAddress(governanceProgram, l6)
  IN cp_transaction(governanceProgram, l7)

\* return { tx, proposalAddress, proposalOwnerRecordKey }
cp_return(l) ==
  [ tx |-> l.promises[1],
    proposalAddress |-> l.proposalAddress,
    proposalOwnerRecordKey |-> l.proposalOwnerRecordKey ]


\* ----------------------------------------------------- insertTransactionTx
it_optionIndex == 0
it_holdupTime == 0

\* instructions.map((ix) => getInstructionDataFromInstruction(ix))
it_ixDataVec(l) ==
  [l EXCEPT !.ixDataVec = [ i \in 1..Len(l.args.instructions) |->
              getInstructionDataFromInstruction(l.args.instructions[i]) ]]

it_proposalTransactionSeeds(proposalAddress, optionIndex, txIndex) ==
  << BufferFrom(GOVERNANCE_PROGRAM_SEED),
     toBuffer(PublicKey(proposalAddress)),
     toArrayLike(optionIndex, 1),
     toArrayLike(txIndex, 2) >>

\* Mutant: txIndex is checked against the calls in flight for the proposal
\* and must be larger than each of theirs.
it_proposalTransactionAddressTracked(l) ==
  IF l.error # Null THEN l
  ELSE IF \/ ~ toArrayLikeFits(l.args.txIndex, 2)
          \/ \E d \in DOMAIN frame :
               /\ frame[d].fn = "insertTransactionTx"
               /\ frame[d].pc = "done"
               /\ PublicKey(frame[d].args.proposalAddress)
                    = PublicKey(l.args.proposalAddress)
               /\ frame[d].args.txIndex >= l.args.txIndex
  THEN [l EXCEPT !.error = Error("txIndex rejected")]
  ELSE [l EXCEPT !.proposalTransactionAddress =
          findProgramAddressSync(
            << BufferFrom(GOVERNANCE_PROGRAM_SEED),
               toBuffer(PublicKey(l.args.proposalAddress)),
               toArrayLike(0, 1),
               toArrayLike(l.args.txIndex, 2) >>,
            GOVERNANCE_PROGRAM_ID)]

\* new BN(txIndex).toArrayLike(Buffer, "le", 2) throws when txIndex needs
\* more than two bytes.
it_proposalTransactionAddress(l) ==
  IF l.error # Null THEN l
  ELSE IF ~ toArrayLikeFits(l.args.txIndex, 2)
  THEN [l EXCEPT !.error = Error("byte array longer than desired length")]
  ELSE [l EXCEPT !.proposalTransactionAddress =
          findProgramAddressSync(
            it_proposalTransactionSeeds(l.args.proposalAddress, it_optionIndex,
                                        l.args.txIndex),
            GOVERNANCE_PROGRAM_ID)]

it_insertTransactionAccounts(governanceProgram, l) ==
  [ governance |-> PublicKey(l.args.governanceKey),
    proposal |-> PublicKey(l.args.proposalAddress),
    tokenOwnerRecord |-> PublicKey(l.args.proposalOwnerRecordKey),
    governanceAuthority |-> providerPublicKey(governanceProgram),
    proposalTransactionAddress |-> l.proposalTransactionAddress,
    payer |-> providerPublicKey(governanceProgram),
    systemProgram |-> SystemProgramId,
    rent |-> SYSVAR_RENT_PUBKEY ]

it_transaction(governanceProgram, l) ==
  IF l.error # Null THEN l
  ELSE LET t == transaction(governanceProgram, "insertTransaction",
                            [ optionIndex |-> it_optionIndex,
                              index |-> l.args.txIndex,
                              holdUpTime |-> it_holdupTime,
                              instructions |-> l.ixDataVec ],
                            it_insertTransactionAccounts(governanceProgram, l))
       IN [l EXCEPT !.promises = <<t.tx>>,
                    !.io = @ \o <<"provider.publicKey", "provider.publicKey">> \o t.io]

\* Lines 157-185: the whole synchronous body of insertTransactionTx.
it_body(governanceProgram, l) ==
  LET l1 == it_ixDataVec(l)
      l2 == it_proposalTransactionAddress(l1)
  IN it_transaction(governanceProgram, l2)

\* ------------------------------------------------- createProposalSignOffTx
so_signOffAccounts(governanceProgram, l) ==
  [ realm |-> PublicKey(l.args.realmKey),
    governance |-> PublicKey(l.args.governanceKey),
    proposal |-> PublicKey(l.args.proposalAddress),
    signatory |-> providerPublicKey(governanceProgram),
    proposalOwnerRecord |-> PublicKey(l.args.proposalOwnerRecordKey) ]

\* Lines 205-214: the whole synchronous body of createProposalSignOffTx.
so_body(governanceProgram, l) ==
  LET t == transaction(governanceProgram, "signOffProposal", <<>>,
                       so_signOffAccounts(governanceProgram, l))
  IN [l EXCEPT !.promises = <<t.tx>>,
               !.io = @ \o <<"provider.publicKey">> \o t.io]


\* ------------------------------ createProposalWithInstructionsTransactions
cw_optionIndex == 0
cw_holdupTime == 0
cw_txIndex == 0

\* if (!realm) throw new Error("Could not fetch Realm V2 account")
cw_checkRealm(l) ==
  IF l.realm = Null
  THEN [l EXCEPT !.error = Error("Could not fetch Realm V2 account")]
  ELSE l

\* const proposalSeed = new web3.Keypair().publicKey
cw_proposalSeed(l, seed) ==
  IF l.error # Null THEN l
  ELSE [l EXCEPT !.proposalSeed = seed, !.keypairs = @ \o <<seed>>]

\* councilVote ? realm.config.councilMint : realm.communityMint
cw_selectMint(realm, councilVote) ==
  IF councilVote THEN realm.config.councilMint ELSE realm.communityMint

cw_governingTokenMint(l) ==
  IF l.error # Null THEN l
  ELSE IF l.realm = Null THEN [l EXCEPT !.error = TypeError]
  ELSE [l EXCEPT !.governingTokenMint =
          cw_selectMint(l.realm, councilVoteOrDefault(l.args.councilVote))]

cw_proposalSeeds(l) ==
  << BufferFrom(GOVERNANCE_PROGRAM_SEED),
     toBuffer(PublicKey(l.args.governanceKey)),
     toBuffer(l.governingTokenMint),
     toBuffer(l.proposalSeed) >>

cw_proposalAddress(governanceProgram, l) ==
  IF l.error # Null THEN l
  ELSE IF l.governingTokenMint = Null THEN [l EXCEPT !.error = TypeError]
  ELSE [l EXCEPT !.proposalAddress =
          findProgramAddressSync(cw_proposalSeeds(l),
                                 GOVERNANCE_PROGRAM_ID)]

\* Mutant: the owner record is always derived from the community mint.
cw_ownerRecordSeedsCommunity(governanceProgram, l) ==
  << BufferFrom(GOVERNANCE_PROGRAM_SEED),
     toBuffer(PublicKey(l.args.realmKey)),
     toBuffer(l.realm.communityMint),
     toBuffer(providerPublicKey(governanceProgram)) >>

cw_ownerRecordSeeds(governanceProgram, l) ==
  << BufferFrom(GOVERNANCE_PROGRAM_SEED),
     toBuffer(PublicKey(l.args.realmKey)),
     toBuffer(l.governingTokenMint),
     toBuffer(providerPublicKey(governanceProgram)) >>

cw_proposalOwnerRecordKey(governanceProgram, l) ==
  IF l.error # Null THEN l
  ELSE [l EXCEPT !.proposalOwnerRecordKey =
          findProgramAddressSync(cw_ownerRecordSeeds(governanceProgram, l),
                                 GOVERNANCE_PROGRAM_ID),
                 !.io = @ \o <<"provider.publicKey">>]

cw_realmConfigAddress(governanceProgram, l) ==
  IF l.error # Null THEN l
  ELSE [l EXCEPT !.realmConfigAddress =
          findProgramAddressSync(
            << BufferFrom("realm-config"), toBuffer(PublicKey(l.args.realmKey)) >>,
            GOVERNANCE_PROGRAM_ID)]

cw_proposalDepositAddress(governanceProgram, l) ==
  IF l.error # Null THEN l
  ELSE [l EXCEPT !.proposalDepositAddress =
          findProgramAddressSync(
            << toBuffer(l.proposalAddress),
               toBuffer(providerPublicKey(governanceProgram)) >>,
            GOVERNANCE_PROGRAM_ID),
                 !.io = @ \o <<"provider.publicKey">>]

cw_ixDataVec(l) ==
  IF l.error # Null THEN l
  ELSE [l EXCEPT !.ixDataVec =
          [ i \in 1..Len(l.args.instructions) |->
              getInstructionDataFromInstruction(l.args.instructions[i]) ]]

cw_proposalTransactionSeeds(proposalAddress, optionIndex, txIndex) ==
  << BufferFrom(GOVERNANCE_PROGRAM_SEED),
     toBuffer(proposalAddress),
     toArrayLike(optionIndex, 1),
     toArrayLike(txIndex, 2) >>

cw_proposalTransactionAddress(governanceProgram, l) ==
  IF l.error # Null THEN l
  ELSE [l EXCEPT !.proposalTransactionAddress =
          findProgramAddressSync(
            cw_proposalTransactionSeeds(l.proposalAddress, cw_optionIndex, cw_txIndex),
            GOVERNANCE_PROGRAM_ID)]

\* TX 1: Create the proposal
cw_createProposal(governanceProgram, l) ==
  transaction(governanceProgram, "createProposal",
    [ name |-> l.args.proposalName, descriptionLink |-> "",
      voteType |-> "singleChoice", options |-> <<"Approve">>,
      useDenyOption |-> TRUE, proposalSeed |-> l.proposalSeed ],
    [ realm |-> PublicKey(l.args.realmKey),
      proposalAddress |-> l.proposalAddress,
      governance |-> PublicKey(l.args.governanceKey),
      proposalOwnerRecord |-> l.proposalOwnerRecordKey,
      governanceAuthority |-> providerPublicKey(governanceProgram),
      payer |-> providerPublicKey(governanceProgram),
      governingTokenMint |-> l.governingTokenMint,
      systemProgram |-> SystemProgramId,
      realmConfigAddress |-> l.realmConfigAddress,
      proposalDepositAddress |-> l.proposalDepositAddress ])

\* TX 2: Insert the instructions TX to the proposal
cw_insertTransaction(governanceProgram, l) ==
  transaction(governanceProgram, "insertTransaction",
    [ optionIndex |-> cw_optionIndex, index |-> cw_txIndex,
      holdUpTime |-> cw_holdupTime, instructions |-> l.ixDataVec ],
    [ governance |-> PublicKey(l.args.governanceKey),
      proposal |-> l.proposalAddress,
      tokenOwnerRecord |-> l.proposalOwnerRecordKey,
      governanceAuthority |-> providerPublicKey(governanceProgram),
      proposalTransactionAddress |-> l.proposalTransactionAddress,
      payer |-> providerPublicKey(governanceProgram),
      systemProgram |-> SystemProgramId,
      rent |-> SYSVAR_RENT_PUBKEY ])

\* TX 3: Sign off on the proposal to show up in the governance UI
cw_signOffProposal(governanceProgram, l) ==
  transaction(governanceProgram, "signOffProposal", <<>>,
    [ realm |-> PublicKey(l.args.realmKey),
      governance |-> PublicKey(l.args.governanceKey),
      proposal |-> l.proposalAddress,
      signatory |-> providerPublicKey(governanceProgram),
      proposalOwnerRecord |-> l.proposalOwnerRecordKey ])

\* The array handed to Promise.all: the three builders, started in order.
cw_promises(governanceProgram, l) ==
  IF l.error # Null THEN l
  ELSE LET t1 == cw_createProposal(governanceProgram, l)
           t2 == cw_insertTransaction(governanceProgram, l)
           t3 == cw_signOffProposal(governanceProgram, l)
       IN [l EXCEPT !.promises = <<t1.tx, t2.tx, t3.tx>>,
                    !.io = @ \o <<"provider.publicKey", "provider.publicKey">> \o t1.io
                             \o <<"provider.publicKey", "provider.publicKey">> \o t2.io
                             \o <<"provider.publicKey">> \o t3.io]

\* Lines 237-341: what the composite builder runs once the realm fetch has
\* resolved.
cw_afterFetch(governanceProgram, l, seed) ==
  LET l1 == cw_checkRealm(l)
      l2 == cw_proposalSeed(l1, seed)
      l3 == cw_governingTokenMint(l2)
      l4 == cw_proposalAddress(governanceProgram, l3)
      l5 == cw_proposalOwnerRecordKey(governanceProgram, l4)
      l6 == cw_realmConfigAddress(governanceProgram, l5)
      l7 == cw_proposalDepositAddress(governanceProgram, l6)
      l8 == cw_ixDataVec(l7)
      l9 == cw_proposalTransactionAddress(governanceProgram, l8)
  IN cw_promises(governanceProgram, l9)

\* Promise.all resolves to the values in the order of the array.
cw_return(l) == l.promises


\* ----------------------------------------------------------- collaborators
\* What governanceProgram.account.realmV2.fetch may resolve to: a realm with
\* its community mint and its optional council mint, or an empty account.
Realms ==
  { [ communityMint |-> m, config |-> [councilMint |-> cm] ] :
      m \in Keys, cm \in Keys \cup {Null} }
FetchResults == Realms \cup {Null}

\* What new web3.Keypair().publicKey may return: any key.
Seeds == Keys

TxIndexes == {0, 1, 255, 256, 65535, 65536}

\* ----------------------------------------------------------------- actions
Init ==
  /\ program \in { createSplGovernanceProgram(w, id) :
                     w \in Wallets, id \in ProgramIdArgs }
  /\ frame = [c \in Calls |-> IdleFrame]

\* The frame of a createProposalTx call as it awaits the realm fetch.
cp_call(realmKey, governanceKey, proposalName, councilVote) ==
  [ IdleFrame EXCEPT
      !.pc = "fetch", !.fn = "createProposalTx",
      !.args = [ realmKey |-> realmKey, governanceKey |-> governanceKey,
                 proposalName |-> proposalName, councilVote |-> councilVote ],
      !.io = <<"account.realmV2.fetch">> ]

\* The frame of a composite call as it awaits the realm fetch.
cw_call(realmKey, governanceKey, proposalName, instructions, councilVote) ==
  [ IdleFrame EXCEPT
      !.pc = "fetch", !.fn = "createProposalWithInstructionsTransactions",
      !.args = [ realmKey |-> realmKey, governanceKey |-> governanceKey,
                 proposalName |-> proposalName, instructions |-> instructions,
                 councilVote |-> councilVote ],
      !.io = <<"account.realmV2.fetch">> ]

\* The frame of an insertTransactionTx call as it starts.
it_call(governanceKey, proposalAddress, proposalOwnerRecordKey, txIndex, instructions) ==
  [ IdleFrame EXCEPT
      !.fn = "insertTransactionTx",
      !.args = [ governanceKey |-> governanceKey,
                 proposalAddress |-> proposalAddress,
                 proposalOwnerRecordKey |-> proposalOwnerRecordKey,
                 txIndex |-> txIndex, instructions |-> instructions ] ]

\* The frame of a createProposalSignOffTx call as it starts.
so_call(realmKey, governanceKey, proposalOwnerRecordKey, proposalAddress) ==
  [ IdleFrame EXCEPT
      !.fn = "createProposalSignOffTx",
      !.args = [ realmKey |-> realmKey, governanceKey |-> governanceKey,
                 proposalOwnerRecordKey |-> proposalOwnerRecordKey,
                 proposalAddress |-> proposalAddress ] ]

\* The value a builder's promise resolves to.
returnValue(l) ==
  CASE l.fn = "createProposalTx" -> cp_return(l)
    [] l.fn = "createProposalWithInstructionsTransactions" -> cw_return(l)
    [] OTHER -> l.promises[1]

\* The builder's promise settles: it resolves to the value built, or rejects
\* with the error thrown, and then holds no value.
settle(l) ==
  IF l.error = Null
  THEN [l EXCEPT !.pc = "done", !.result = returnValue(l)]
  ELSE [l EXCEPT !.pc = "failed"]

\* Lines 61-68: the call, up to the await of the realm fetch.
CreateProposalTx(c, realmKey, governanceKey, proposalName, councilVote) ==
  /\ frame[c].pc = "idle"
  /\ frame' = [frame EXCEPT ![c] =
       cp_call(realmKey, governanceKey, proposalName, councilVote)]
  /\ UNCHANGED program

\* Lines 228-236: the call, up to the await of the realm fetch.
CreateProposalWithInstructionsTransactions(c, realmKey, governanceKey, proposalName, instructions, councilVote) ==
  /\ frame[c].pc = "idle"
  /\ frame' = [frame EXCEPT ![c] =
       cw_call(realmKey, governanceKey, proposalName, instructions, councilVote)]
  /\ UNCHANGED program

\* What a builder that awaited the realm does once the fetch has resolved to
\* realm, up to the settling of its promise.
resume(governanceProgram, l, realm, seed) ==
  settle(IF l.fn = "createProposalTx"
         THEN cp_afterFetch(governanceProgram, [l EXCEPT !.realm = realm], seed)
         ELSE cw_afterFetch(governanceProgram, [l EXCEPT !.realm = realm], seed))

\* The realm fetch resolves; the builder runs to its end.
FetchResolve(c, realm, seed) ==
  /\ frame[c].pc = "fetch"
  /\ frame' = [frame EXCEPT ![c] = resume(program, frame[c], realm, seed)]
  /\ UNCHANGED program

\* The realm fetch rejects; the error propagates unchanged.
rejected(l) == settle([l EXCEPT !.error = Error("RPC failure")])

FetchReject(c) ==
  /\ frame[c].pc = "fetch"
  /\ frame' = [frame EXCEPT ![c] = rejected(frame[c])]
  /\ UNCHANGED program

\* Lines 149-185: the call runs to its end without awaiting a collaborator.
InsertTransactionTx(c, governanceKey, proposalAddress, proposalOwnerRecordKey, txIndex, instructions) ==
  /\ frame[c].pc = "idle"
  /\ frame' = [frame EXCEPT ![c] =
       settle(it_body(program,
                      it_call(governanceKey, proposalAddress,
                              proposalOwnerRecordKey, txIndex, instructions)))]
  /\ UNCHANGED program

\* Lines 198-214: the call runs to its end without awaiting a collaborator.
CreateProposalSignOffTx(c, realmKey, governanceKey, proposalOwnerRecordKey, proposalAddress) ==
  /\ frame[c].pc = "idle"
  /\ frame' = [frame EXCEPT ![c] =
       settle(so_body(program,
                      so_call(realmKey, governanceKey, proposalOwnerRecordKey,
                              proposalAddress)))]
  /\ UNCHANGED program

\* The caller has taken the result or the error: the frame is gone.
Await(c) ==
  /\ frame[c].pc \in {"done", "failed"}
  /\ frame' = [frame EXCEPT ![c] = IdleFrame]
  /\ UNCHANGED program

\* One step of call c, its inputs drawn from the given sets.
Step(c, addresses, votes, lists, indexes, fetched, seeds) ==
  \/ /\ frame[c].pc = "idle"
     /\ \E r \in addresses, g \in addresses, n \in ProposalNames, v \in votes :
          CreateProposalTx(c, r, g, n, v)
  \/ /\ frame[c].pc = "idle"
     /\ \E r \in addresses, g \in addresses, n \in ProposalNames,
           is \in lists, v \in votes :
          CreateProposalWithInstructionsTransactions(c, r, g, n, is, v)
  \/ /\ frame[c].pc = "fetch"
     /\ \E realm \in fetched, seed \in seeds : FetchResolve(c, realm, seed)
  \/ FetchReject(c)
  \/ /\ frame[c].pc = "idle"
     /\ \E g \in addresses, p \in addresses, o \in addresses, i \in indexes,
           is \in lists :
          InsertTransactionTx(c, g, p, o, i, is)
  \/ /\ frame[c].pc = "idle"
     /\ \E r \in addresses, g \in addresses, o \in addresses, p \in addresses :
          CreateProposalSignOffTx(c, r, g, o, p)
  \/ Await(c)

\* A caller that awaits each call before it makes the next one.
FirstCall == CHOOSE c \in Calls : \A d \in Calls : c <= d

Next ==
  Step(FirstCall, Addresses, CouncilVoteArgs, InstructionLists, TxIndexes,
       FetchResults, Seeds)

Spec == Init /\ [][Next]_vars

\* Callers that keep up to NumCalls calls in flight, over a small alphabet:
\* one realm, one governance, and a realm with or without a council mint.
FewAddresses == {Key(1)}
FewVotes == {"true", "false"}
FewLists == {<<>>}
FewIndexes == {0, 1, 65536}
FewFetched ==
  { Null,
    [ communityMint |-> Key(1), config |-> [councilMint |-> Null] ],
    [ communityMint |-> Key(1), config |-> [councilMint |-> Key(NumKeys)] ] }

NextConcurrent ==
  \E c \in Calls :
    Step(c, FewAddresses, FewVotes, FewLists, FewIndexes, FewFetched, Seeds)

SpecConcurrent == Init /\ [][NextConcurrent]_vars


\* ------------------------------------------------------------- vocabulary
Fetching == {"createProposalTx", "createProposalWithInstructionsTransactions"}

\* The call in frame l has run to its end.
Settled(l) == l.pc \in {"done", "failed"}

\* The five addresses a frame may have derived.
AddressesOf(l) ==
  << l.proposalAddress, l.proposalOwnerRecordKey, l.realmConfigAddress,
     l.proposalDepositAddress, l.proposalTransactionAddress >>

NoAddress == <<Null, Null, Null, Null, Null>>

\* The transactions a settled frame returned, in the order returned.
TransactionsOf(l) ==
  CASE l.fn = "createProposalTx" -> <<l.result.tx>>
    [] l.fn = "createProposalWithInstructionsTransactions" -> l.result
    [] OTHER -> <<l.result>>

\* The one instruction of a transaction.
IxOf(tx) == tx.instructions[1]

\* The mint the caller's councilVote asks for, and the other one.
AskedMint(l) ==
  IF l.args.councilVote = "true"
  THEN l.realm.config.councilMint ELSE l.realm.communityMint
OtherMint(l) ==
  IF l.args.councilVote = "true"
  THEN l.realm.communityMint ELSE l.realm.config.councilMint

\* ---------------------------------------------------------------------- C1
\* The frame createProposalTx ends in on the inputs, the fetched realm and
\* the proposal seed of the composite frame l.
CreatedAlone(l) ==
  resume(program,
         cp_call(l.args.realmKey, l.args.governanceKey, l.args.proposalName,
                 l.args.councilVote),
         l.realm, l.proposalSeed)

\* What createProposalTx, insertTransactionTx with txIndex 0 and
\* createProposalSignOffTx return when run one after the other on the
\* inputs, the fetched realm and the proposal seed of the composite frame l.
SingleBuilders(l) ==
  LET created == CreatedAlone(l)
      inserted == settle(it_body(program,
                        it_call(l.args.governanceKey,
                                created.result.proposalAddress,
                                created.result.proposalOwnerRecordKey,
                                0, l.args.instructions)))
      signedOff == settle(so_body(program,
                        so_call(l.args.realmKey, l.args.governanceKey,
                                created.result.proposalOwnerRecordKey,
                                created.result.proposalAddress)))
  IN << created.result.tx, inserted.result, signedOff.result >>

\* C1 as claimed: for every realm state and every councilVote flag the
\* composite call returns exactly three unsigned transactions, in the order
\* [create proposal, insert transaction, sign off].
C1_AlwaysReturnsThree ==
  \A c \in Calls :
    LET l == frame[c] IN
    ( /\ l.fn = "createProposalWithInstructionsTransactions"
      /\ Settled(l)
      /\ l.realm # Null ) =>
        /\ l.pc = "done"
        /\ Len(l.result) = 3
        /\ << IxOf(l.result[1]).name, IxOf(l.result[2]).name,
              IxOf(l.result[3]).name >>
             = << "createProposal", "insertTransaction", "signOffProposal" >>

\* C1 as amended: a composite call whose fetched realm has the mint that
\* councilVote asks for returns exactly three unsigned transactions in the
\* order [create proposal, insert transaction, sign off]; each names the
\* proposal address and the owner-record address that createProposalTx,
\* insertTransactionTx (txIndex 0) and createProposalSignOffTx produce from
\* the same inputs, realm and proposal seed, and the three are the very
\* transactions those builders return. On any other fetched realm the
\* composite call fails as createProposalTx does and returns nothing.
C1_CompositeMatchesSingleBuilders ==
  \A c \in Calls :
    LET l == frame[c] IN
    ( /\ l.fn = "createProposalWithInstructionsTransactions"
      /\ Settled(l)
      /\ l.error # Error("RPC failure") ) =>
      /\ (l.pc = "done") <=> (l.realm # Null /\ AskedMint(l) # Null)
      /\ l.pc = CreatedAlone(l).pc
      /\ l.error = CreatedAlone(l).error
      /\ (l.pc = "failed") => l.result = Null
      /\ (l.pc = "done") =>
           LET txs == l.result
               single == SingleBuilders(l)
           IN /\ Len(txs) = 3
              /\ \A i \in 1..3 : Len(txs[i].instructions) = 1 /\ txs[i].signatures = <<>>
              /\ << IxOf(txs[1]).name, IxOf(txs[2]).name, IxOf(txs[3]).name >>
                   = << "createProposal", "insertTransaction", "signOffProposal" >>
              /\ IxOf(txs[2]).args.index = 0
              /\ IxOf(txs[1]).accounts.proposalAddress
                   = IxOf(single[1]).accounts.proposalAddress
              /\ IxOf(txs[2]).accounts.proposal = IxOf(single[2]).accounts.proposal
              /\ IxOf(txs[3]).accounts.proposal = IxOf(single[3]).accounts.proposal
              /\ IxOf(txs[2]).accounts.proposal = IxOf(txs[1]).accounts.proposalAddress
              /\ IxOf(txs[3]).accounts.proposal = IxOf(txs[1]).accounts.proposalAddress
              /\ IxOf(txs[1]).accounts.proposalOwnerRecord
                   = IxOf(single[1]).accounts.proposalOwnerRecord
              /\ IxOf(txs[2]).accounts.tokenOwnerRecord
                   = IxOf(single[2]).accounts.tokenOwnerRecord
              /\ IxOf(txs[3]).accounts.proposalOwnerRecord
                   = IxOf(single[3]).accounts.proposalOwnerRecord
              /\ IxOf(txs[2]).accounts.tokenOwnerRecord
                   = IxOf(txs[1]).accounts.proposalOwnerRecord
              /\ IxOf(txs[3]).accounts.proposalOwnerRecord
                   = IxOf(txs[1]).accounts.proposalOwnerRecord
              /\ txs = single

\* A council-vote composite call over a string realm address and a
\* non-empty instruction list has returned.
C1_Witness ==
  \E c \in Calls :
    /\ frame[c].fn = "createProposalWithInstructionsTransactions"
    /\ frame[c].pc = "done"
    /\ frame[c].args.councilVote = "true"
    /\ frame[c].args.instructions # <<>>
    /\ frame[c].args.realmKey \notin Keys
    /\ frame[c].realm.communityMint # frame[c].realm.config.councilMint

\* ---------------------------------------------------------------------- C2
\* C2: a createProposalTx or composite call whose realm fetch returned an
\* empty account or failed ends in an error, having generated no proposal
\* seed, derived no address, built no transaction and returned nothing.
C2_NoRealmNoTransaction ==
  \A c \in Calls :
    LET l == frame[c] IN
    (l.fn \in Fetching /\ l.pc # "fetch" /\ l.realm = Null) =>
      /\ l.pc = "failed"
      /\ l.error \in { Error("Could not fetch Realm V2 account"),
                       Error("RPC failure") }
      /\ l.proposalSeed = Null
      /\ l.keypairs = <<>>
      /\ l.governingTokenMint = Null
      /\ AddressesOf(l) = NoAddress
      /\ l.promises = <<>>
      /\ l.result = Null

\* A createProposalTx call has failed on an empty realm account.
C2_Witness ==
  \E c \in Calls :
    /\ frame[c].fn = "createProposalTx"
    /\ frame[c].pc = "failed"
    /\ frame[c].realm = Null
    /\ frame[c].error = Error("Could not fetch Realm V2 account")

\* ---------------------------------------------------------------------- C3
\* C3: a createProposalTx call that returns has used the council mint of the
\* fetched realm when councilVote is true and the community mint when it is
\* false or omitted; that one mint is the mint component of the proposal
\* address and of the owner-record address and the governingTokenMint
\* account of the transaction, and no other mint is in any of the three.
C3_MintFollowsCouncilVote ==
  \A c \in Calls :
    LET l == frame[c] IN
    (l.fn = "createProposalTx" /\ l.pc = "done") =>
      LET accounts == IxOf(l.result.tx).accounts
          used == { accounts.governingTokenMint,
                    l.result.proposalAddress.seeds[3].bytes32,
                    l.result.proposalOwnerRecordKey.seeds[3].bytes32 }
      IN /\ used = {AskedMint(l)}
         /\ AskedMint(l) # Null
         /\ OtherMint(l) # AskedMint(l) => OtherMint(l) \notin used
         /\ accounts.proposalAddress = l.result.proposalAddress
         /\ accounts.proposalOwnerRecord = l.result.proposalOwnerRecordKey

\* A council-vote createProposalTx call has returned for a realm whose two
\* mints differ.
C3_Witness ==
  \E c \in Calls :
    /\ frame[c].fn = "createProposalTx"
    /\ frame[c].pc = "done"
    /\ frame[c].args.councilVote = "true"
    /\ frame[c].realm.communityMint # frame[c].realm.config.councilMint
    /\ IxOf(frame[c].result.tx).accounts.governingTokenMint
         = frame[c].realm.config.councilMint


\* ---------------------------------------------------------------------- C4
\* The indexes of TxIndexes that fit two bytes.
U16Indexes == {i \in TxIndexes : i < 65536}

\* The insertTransactionTx call of frame l, made again with txIndex j.
WithTxIndex(l, j) ==
  settle(it_body(program,
                 it_call(l.args.governanceKey, l.args.proposalAddress,
                         l.args.proposalOwnerRecordKey, j, l.args.instructions)))

\* C4: an insertTransactionTx call with txIndex in 0..65535 derives the
\* proposal-transaction address from [governance seed, proposal address,
\* the byte 0, the bytes (txIndex mod 256, txIndex div 256)]; the same call
\* with another txIndex differs in that address and in the txIndex argument
\* and in nothing else: the proposal, owner-record, governance and payer
\* accounts are the same.
C4_TxIndexTwoBytesLittleEndian ==
  \A c \in Calls :
    LET l == frame[c] IN
    (l.fn = "insertTransactionTx" /\ l.args.txIndex \in 0..65535) =>
      /\ l.pc = "done"
      /\ l.proposalTransactionAddress.seeds
           = << [utf8 |-> GOVERNANCE_PROGRAM_SEED],
                [bytes32 |-> PublicKey(l.args.proposalAddress)],
                [byte |-> 0],
                [byte |-> l.args.txIndex % 256],
                [byte |-> l.args.txIndex \div 256] >>
      /\ IxOf(l.result).accounts.proposalTransactionAddress
           = l.proposalTransactionAddress
      /\ IxOf(l.result).args.index = l.args.txIndex
      /\ \A j \in U16Indexes :
           LET other == WithTxIndex(l, j)
               a == IxOf(l.result).accounts
               b == IxOf(other.result).accounts
           IN /\ other.pc = "done"
              /\ b.proposal = a.proposal
              /\ b.tokenOwnerRecord = a.tokenOwnerRecord
              /\ b.governance = a.governance
              /\ b.payer = a.payer
              /\ [ IxOf(other.result) EXCEPT
                     !.accounts.proposalTransactionAddress =
                        a.proposalTransactionAddress,
                     !.args.index = l.args.txIndex ] = IxOf(l.result)
              /\ (j # l.args.txIndex) =>
                   b.proposalTransactionAddress # a.proposalTransactionAddress

\* An insertTransactionTx call with a txIndex whose high byte is not zero
\* and differs from its low byte has returned.
C4_Witness ==
  \E c \in Calls :
    /\ frame[c].fn = "insertTransactionTx"
    /\ frame[c].pc = "done"
    /\ frame[c].args.txIndex = 256
    /\ frame[c].proposalTransactionAddress.seeds[4] = [byte |-> 0]
    /\ frame[c].proposalTransactionAddress.seeds[5] = [byte |-> 1]

\* ---------------------------------------------------------------------- C6
\* How often operation op is in the trace io.
Count(io, op) == Cardinality({i \in 1..Len(io) : io[i] = op})

\* C6: whatever calls are made, a call asks nothing of the signer but its
\* public key and nothing of the connection but the realm account, which
\* createProposalTx and the composite builder fetch once per call and
\* insertTransactionTx and createProposalSignOffTx never; no transaction
\* returned carries a signature.
C6_NothingSignedOrSent ==
  \A c \in Calls :
    LET l == frame[c] IN
      /\ \A i \in 1..Len(l.io) :
           l.io[i] \in {"account.realmV2.fetch", "provider.publicKey"}
      /\ (l.pc # "idle") =>
           Count(l.io, "account.realmV2.fetch")
             = IF l.fn \in Fetching THEN 1 ELSE 0
      /\ (l.pc = "done") =>
           \A i \in 1..Len(TransactionsOf(l)) :
             TransactionsOf(l)[i].signatures = <<>>

\* A composite call has returned its three transactions.
C6_Witness ==
  \E c \in Calls :
    /\ frame[c].fn = "createProposalWithInstructionsTransactions"
    /\ frame[c].pc = "done"
    /\ Len(TransactionsOf(frame[c])) = 3
    /\ Count(frame[c].io, "provider.publicKey") > 0

\* ---------------------------------------------------------------------- C9
\* The addresses frame l has derived.
DerivedBy(l) ==
  {AddressesOf(l)[i] : i \in 1..5} \ {Null}

\* C9: every address a builder derives is derived under the identifier of
\* the program the returned instructions target, the handle's programId.
C9_DerivedUnderHandleProgram ==
  \A c \in Calls :
    LET l == frame[c] IN
    (l.pc = "done") =>
      /\ \A i \in 1..Len(TransactionsOf(l)) :
           IxOf(TransactionsOf(l)[i]).programId = program.programId
      /\ \A a \in DerivedBy(l) : a.owner = program.programId

\* --------------------------------------------------------------------- C10
\* C10: a createProposalTx or composite call with councilVote true over a
\* realm without a council mint ends in an error: no mint is selected in
\* place of the missing one, no address is derived, no transaction is built
\* and nothing is returned; and no call returns a transaction whose
\* governing token mint is absent.
C10_NoCouncilMintFails ==
  \A c \in Calls :
    LET l == frame[c] IN
      /\ ( /\ l.fn \in Fetching
           /\ Settled(l)
           /\ l.realm # Null
           /\ l.args.councilVote = "true"
           /\ l.realm.config.councilMint = Null ) =>
             /\ l.pc = "failed"
             /\ l.error # Null
             /\ l.governingTokenMint = Null
             /\ AddressesOf(l) = NoAddress
             /\ l.promises = <<>>
             /\ l.result = Null
      /\ (l.fn \in Fetching /\ l.pc = "done") =>
             IxOf(TransactionsOf(l)[1]).accounts.governingTokenMint # Null

\* A council-vote createProposalTx call has failed on a realm that has a
\* community mint and no council mint.
C10_Witness ==
  \E c \in Calls :
    /\ frame[c].fn = "createProposalTx"
    /\ frame[c].pc = "failed"
    /\ frame[c].args.councilVote = "true"
    /\ frame[c].realm # Null
    /\ frame[c].realm.config.councilMint = Null
    /\ frame[c].error = TypeError


\* ---------------------------------------------------------------------- C5
\* The createProposalTx transaction tx with the three places the proposal
\* seed reaches overwritten by those of the transaction ty.
SeedPlacesFrom(tx, ty) ==
  [ tx EXCEPT
      !.instructions[1].args.proposalSeed = IxOf(ty).args.proposalSeed,
      !.instructions[1].accounts.proposalAddress = IxOf(ty).accounts.proposalAddress,
      !.instructions[1].accounts.proposalDepositAddress =
         IxOf(ty).accounts.proposalDepositAddress ]

\* C5: two calls of one builder with the same arguments, the same fetched
\* realm and the same proposal seed derive the same five addresses and
\* return the same value; two createProposalTx calls with the same arguments
\* and realm differ at most where the proposal seed reaches: the seed
\* argument, the proposal address and the deposit address, which differ when
\* the seeds do, and never the owner-record or the realm-config address.
C5_Deterministic ==
  \A c \in Calls, d \in Calls :
    LET l == frame[c]
        m == frame[d]
    IN (c # d /\ Settled(l) /\ Settled(m) /\ l.fn = m.fn /\ l.args = m.args
          /\ l.realm = m.realm) =>
         /\ (l.proposalSeed = m.proposalSeed) =>
              /\ AddressesOf(l) = AddressesOf(m)
              /\ l.result = m.result
         /\ (l.fn = "createProposalTx" /\ l.pc = "done" /\ m.pc = "done") =>
              /\ l.proposalOwnerRecordKey = m.proposalOwnerRecordKey
              /\ l.realmConfigAddress = m.realmConfigAddress
              /\ SeedPlacesFrom(l.result.tx, m.result.tx) = m.result.tx
              /\ (l.proposalSeed # m.proposalSeed) =>
                   /\ l.proposalAddress # m.proposalAddress
                   /\ l.proposalDepositAddress # m.proposalDepositAddress

\* Two createProposalTx calls with the same arguments and realm have
\* returned with different proposal seeds.
C5_Witness ==
  \E c \in Calls, d \in Calls :
    /\ c # d
    /\ frame[c].fn = "createProposalTx" /\ frame[d].fn = "createProposalTx"
    /\ frame[c].pc = "done" /\ frame[d].pc = "done"
    /\ frame[c].args = frame[d].args
    /\ frame[c].realm = frame[d].realm
    /\ frame[c].proposalSeed # frame[d].proposalSeed

RunAlone(l) ==
  CASE l.fn \in Fetching /\ l.error = Error("RPC failure") ->
         rejected([l EXCEPT !.pc = "fetch", !.error = Null])
    [] l.fn = "createProposalTx" /\ l.error # Error("RPC failure") ->
         resume(program,
                cp_call(l.args.realmKey, l.args.governanceKey,
                        l.args.proposalName, l.args.councilVote),
                l.realm,
                IF l.keypairs = <<>> THEN Null ELSE l.keypairs[1])
    [] l.fn = "createProposalWithInstructionsTransactions"
         /\ l.error # Error("RPC failure") ->
         resume(program,
                cw_call(l.args.realmKey, l.args.governanceKey,
                        l.args.proposalName, l.args.instructions,
                        l.args.councilVote),
                l.realm,
                IF l.keypairs = <<>> THEN Null ELSE l.keypairs[1])
    [] l.fn = "insertTransactionTx" -> WithTxIndex(l, l.args.txIndex)
    [] OTHER ->
         settle(so_body(program,
                        so_call(l.args.realmKey, l.args.governanceKey,
                                l.args.proposalOwnerRecordKey,
                                l.args.proposalAddress)))

\* C8 as claimed: a call that has run to its end returns what it returns
\* when run alone; every createProposalTx and composite call has generated a
\* proposal seed exactly once; and no address derived by one call is in the
\* result of another.
C8_SeedPerCallNoAddressShared ==
  \A c \in Calls :
    LET l == frame[c] IN
    Settled(l) =>
      /\ l.result = RunAlone(l).result
      /\ (l.fn \in Fetching) => Len(l.keypairs) = 1
      /\ \A d \in Calls \ {c} :
           (l.pc = "done" /\ frame[d].pc = "done") =>
             DerivedBy(l) \cap DerivedBy(frame[d]) = {}

\* C8 as amended: however the calls interleave, a call that has run to its
\* end is in the state, and returns the value, it ends in when run alone on
\* the same arguments and the same fetched realm; a createProposalTx or
\* composite call whose fetch returned a realm has generated one key, its
\* proposal seed, and a call whose fetch failed or returned an empty account
\* has generated none; the seed argument and the seed component of the
\* proposal address a call returns are the key that call generated.
C8_CallsShareNothing ==
  \A c \in Calls :
    LET l == frame[c] IN
    Settled(l) =>
      /\ l = RunAlone(l)
      /\ (l.fn \in Fetching) =>
           /\ Len(l.keypairs) = IF l.realm = Null THEN 0 ELSE 1
           /\ l.proposalSeed = IF l.realm = Null THEN Null ELSE l.keypairs[1]
           /\ (l.pc = "done") =>
                /\ IxOf(TransactionsOf(l)[1]).args.proposalSeed = l.keypairs[1]
                /\ l.proposalAddress.seeds[4] = [bytes32 |-> l.keypairs[1]]
                /\ IxOf(TransactionsOf(l)[1]).accounts.proposalAddress
                     = l.proposalAddress
      /\ (l.fn \notin Fetching) => l.keypairs = <<>>

\* Two createProposalTx calls were in flight together and both have
\* returned, one on the council mint and one on the community mint, each
\* with a proposal seed of its own.
C8_Witness ==
  \E c \in Calls, d \in Calls :
    /\ c # d
    /\ frame[c].fn = "createProposalTx" /\ frame[d].fn = "createProposalTx"
    /\ frame[c].pc = "done" /\ frame[d].pc = "done"
    /\ frame[c].args.councilVote = "true" /\ frame[d].args.councilVote = "false"
    /\ frame[c].proposalSeed # frame[d].proposalSeed
    /\ IxOf(frame[c].result.tx).args.proposalSeed = frame[c].proposalSeed
    /\ IxOf(frame[d].result.tx).args.proposalSeed = frame[d].proposalSeed

====
